---- MODULE Spec2Model ----
(***************************************************************************)
(* Model of the Peezy AI Prop Builder: the pure scoring functions of       *)
(* analysis.py and the session-state handlers of streamlit_app.py.         *)
(*                                                                         *)
(* Numbers: Python computes trend_strength and risk_score as floats.  The  *)
(* model keeps them exact, as fractions [num, den] whose denominator is    *)
(* the slip length (1 for the literal 0 of the empty-slip return).         *)
(* Strings built by f-strings are kept as tuples of their parts: the       *)
(* warning <<"HIGH", count, game_id>> stands for                           *)
(* 'HIGH: {count} picks from the same game ({game_id}). Positive ...'.     *)
(* Python's None is the empty tuple / the record NoUser, both falsy.       *)
(***************************************************************************)
EXTENDS Integers, Sequences, FiniteSets

VARIABLES
    score,        \* get_trend_indicator: the argument drawn for the call
    indicator,    \* get_trend_indicator: the value returned, NotCalled before
    selections,   \* analyze_slip_risk: the argument slip_selections
    result,       \* analyze_slip_risk: the value returned, NotCalled before
    db,           \* streamlit_app.db: TRUE when initialize_firebase returned a client
    accounts,     \* the auth provider's registered e-mails
    store,        \* Firestore collection "watchlists": uid -> document
    user,         \* st.session_state.user
    slip,         \* st.session_state.slip
    watchlist,    \* st.session_state.watchlist
    raised        \* the exception the last callback ended with, NoException if none

vars == <<score, indicator, selections, result, db, accounts, store, user, slip,
          watchlist, raised>>

-----------------------------------------------------------------------------
(* Bounds of the model *)

\* get_trend_indicator is applied to every integer in -ScoreBound..ScoreBound
ScoreBound == 60

\* analyze_slip_risk is applied to slips drawn from the first NumProps feed props
NumProps == 10

\* the cap specification offers add_to_slip the first NumFeedProps feed props
NumFeedProps == 7

-----------------------------------------------------------------------------
(* Program constants *)

\* len(st.session_state.slip) >= 6
SlipCap == 6

\* len(password) < 6
MinPasswordLen == 6

\* correlation_penalty += 4
SelfCorrelationPenalty == 4

\* correlation_penalty += 2
GameCorrelationPenalty == 2

\* count > 2
GameCountThreshold == 2

\* risk_score = 10 - ...
BaseRisk == 10

-----------------------------------------------------------------------------
(* Values *)

None == <<>>

NotCalled == [called |-> FALSE]

NoUser == [email |-> "", uid |-> ""]

NoException == "None"

Max(a, b) == IF a >= b THEN a ELSE b

\* a number num/den (den > 0)
Rat(n, d) == [num |-> n, den |-> d]

\* a/b = c/d for fractions with positive denominators
RatEq(a, b) == a.num * b.den = b.num * a.den

\* a >= 0 for a fraction with a positive denominator
RatNonNeg(a) == a.num >= 0

-----------------------------------------------------------------------------
(* analysis.py: the prop feed *)

get_dummy_prop_data ==
    << [id |-> "prop-1", name |-> "LeBron James", market |-> "Player Points",
        line |-> "25.5", trend_score |-> 3, game_id |-> "LAL@DEN"],
       [id |-> "prop-2", name |-> "Nikola Jokic", market |-> "Player Rebounds",
        line |-> "12.5", trend_score |-> 2, game_id |-> "LAL@DEN"],
       [id |-> "prop-3", name |-> "Jayson Tatum", market |-> "Player Assists",
        line |-> "5.5", trend_score |-> 3, game_id |-> "BOS@NYK"],
       [id |-> "prop-4", name |-> "Luka Doncic", market |-> "Player Points",
        line |-> "32.5", trend_score |-> 1, game_id |-> "DAL@PHX"],
       [id |-> "prop-5", name |-> "Luka Doncic", market |-> "Player Assists",
        line |-> "7.5", trend_score |-> 2, game_id |-> "DAL@PHX"] >>

\* The feed the placeholder stands for ("You will fetch this from the API
\* later"): the placeholder's five props followed by further props of the
\* same shape.  They bring a third pick to each of two games, the same
\* player/market under a second id (in another game, and in the same game)
\* and a trend_score outside 1..3, which the code does not validate.
FeedProps ==
    get_dummy_prop_data \o
    << [id |-> "prop-6", name |-> "LeBron James", market |-> "Player Assists",
        line |-> "8.5", trend_score |-> 1, game_id |-> "LAL@DEN"],
       [id |-> "prop-7", name |-> "Kevin Durant", market |-> "Player Points",
        line |-> "27.5", trend_score |-> 3, game_id |-> "DAL@PHX"],
       [id |-> "prop-8", name |-> "LeBron James", market |-> "Player Points",
        line |-> "26.5", trend_score |-> 2, game_id |-> "LAL@GSW"],
       [id |-> "prop-9", name |-> "Luka Doncic", market |-> "Player Points",
        line |-> "33.5", trend_score |-> 25, game_id |-> "DAL@PHX"],
       [id |-> "prop-10", name |-> "LeBron James", market |-> "Player Points",
        line |-> "24.5", trend_score |-> 3, game_id |-> "LAL@DEN"],
       [id |-> "prop-11", name |-> "Nikola Jokic", market |-> "Player Rebounds",
        line |-> "13.5", trend_score |-> 1, game_id |-> "LAL@DEN"] >>

Catalogue == { get_dummy_prop_data[i] : i \in 1..Len(get_dummy_prop_data) }

Feed(n) == { FeedProps[i] : i \in 1..n }

\* the dict add_to_slip appends for prop_data and selection
SlipItem(prop_data, selection) ==
    [id |-> prop_data.id,
     playerName |-> prop_data.name,
     propMarket |-> prop_data.market,
     line |-> prop_data.line,
     selection |-> selection,
     trend_score |-> prop_data.trend_score,
     game_id |-> prop_data.game_id]

-----------------------------------------------------------------------------
(* analysis.py: get_trend_indicator *)

\* the first branch taken for a score of exactly 3 only
get_trend_indicator_exact(s) ==
    IF s = 3 THEN <<"LOCK", "green">>
    ELSE IF s = 2 THEN <<"NEUTRAL", "orange">>
    ELSE <<"FADE", "red">>

get_trend_indicator(s) ==
    IF s >= 3 THEN <<"LOCK", "green">>
    ELSE IF s = 2 THEN <<"NEUTRAL", "orange">>
    ELSE <<"FADE", "red">>

-----------------------------------------------------------------------------
(* analysis.py: analyze_slip_risk *)

\* d[key] = d.get(key, 0) + 1 on a dict kept as the sequence of its
\* (key, count) items in insertion order
Increment(d, key) ==
    IF \E i \in 1..Len(d) : d[i].key = key
    THEN [i \in 1..Len(d) |->
            IF d[i].key = key THEN [key |-> key, count |-> d[i].count + 1]
            ELSE d[i]]
    ELSE Append(d, [key |-> key, count |-> 1])

\* the dict the counting loop leaves after keys[1..n]
RECURSIVE CountKeys(_, _)
CountKeys(keys, n) ==
    IF n = 0 THEN <<>> ELSE Increment(CountKeys(keys, n - 1), keys[n])

player_prop_counts(slip_selections) ==
    CountKeys([i \in 1..Len(slip_selections) |->
                 <<slip_selections[i].playerName, slip_selections[i].propMarket>>],
              Len(slip_selections))

game_counts(slip_selections) ==
    CountKeys([i \in 1..Len(slip_selections) |-> slip_selections[i].game_id],
              Len(slip_selections))

ExtremeWarning == <<"EXTREME">>

HighWarning(count, game_id) == <<"HIGH", count, game_id>>

\* step 1 without the break: the penalty added for every count > 1
SelfCorrelationEveryGroup(slip_selections) ==
    LET counts == player_prop_counts(slip_selections)
        found == { i \in 1..Len(counts) : counts[i].count > 1 }
    IN  [penalty |-> SelfCorrelationPenalty * Cardinality(found),
         warning |-> IF found # {} THEN ExtremeWarning ELSE None]

\* step 1: the loop over player_prop_counts.values(), left at the first count > 1
SelfCorrelation(slip_selections) ==
    LET counts == player_prop_counts(slip_selections)
    IN  IF \E i \in 1..Len(counts) : counts[i].count > 1
        THEN [penalty |-> SelfCorrelationPenalty, warning |-> ExtremeWarning]
        ELSE [penalty |-> 0, warning |-> None]

\* the loop body without "and not correlation_warning"
GameStepUnguarded(acc, item) ==
    IF item.count > GameCountThreshold
    THEN [penalty |-> acc.penalty + GameCorrelationPenalty,
          warning |-> HighWarning(item.count, item.key)]
    ELSE acc

\* the loop body with count >= 2 for count > 2
GameStepAtLeast(acc, item) ==
    IF item.count >= GameCountThreshold /\ acc.warning = None
    THEN [penalty |-> acc.penalty + GameCorrelationPenalty,
          warning |-> HighWarning(item.count, item.key)]
    ELSE acc

\* one pass of the body of the loop over game_counts.items()
GameStep(acc, item) ==
    IF item.count > GameCountThreshold /\ acc.warning = None
    THEN [penalty |-> acc.penalty + GameCorrelationPenalty,
          warning |-> HighWarning(item.count, item.key)]
    ELSE acc

\* step 2: the loop over items[1..n], started from acc
RECURSIVE GameLoop(_, _, _)
GameLoop(acc, items, n) ==
    IF n = 0 THEN acc ELSE GameStep(GameLoop(acc, items, n - 1), items[n])

\* step 2 run on its own and laid over step 1: both penalties, the game warning
\* when there is one
CorrelationStepsApart(slip_selections) ==
    LET self == SelfCorrelation(slip_selections)
        items == game_counts(slip_selections)
        game == GameLoop([penalty |-> 0, warning |-> None], items, Len(items))
    IN  [penalty |-> self.penalty + game.penalty,
         warning |-> IF game.warning # None THEN game.warning ELSE self.warning]

\* correlation_penalty and correlation_warning after steps 1 and 2
Correlation(slip_selections) ==
    LET items == game_counts(slip_selections)
    IN  GameLoop(SelfCorrelation(slip_selections), items, Len(items))

RECURSIVE SumTrend(_, _)
SumTrend(slip_selections, n) ==
    IF n = 0 THEN 0
    ELSE SumTrend(slip_selections, n - 1) + slip_selections[n].trend_score

total_trend_score(slip_selections) == SumTrend(slip_selections, Len(slip_selections))

\* the risk score returned without max(0, ...)
RiskNumeratorUnclamped(total, n, penalty) == BaseRisk * n - total - penalty * n

\* max(0, 10 - trend_strength - correlation_penalty), times len(slip_selections)
RiskNumerator(total, n, penalty) == Max(0, BaseRisk * n - total - penalty * n)

\* steps 3 and 4 and the return; the division raises on an empty list
ScoreSlip(slip_selections) ==
    IF Len(slip_selections) = 0
    THEN [called |-> TRUE, raised |-> "ZeroDivisionError"]
    ELSE LET correlation == Correlation(slip_selections)
             total == total_trend_score(slip_selections)
             n == Len(slip_selections)
         IN  [called |-> TRUE, raised |-> NoException,
              risk_score |-> Rat(RiskNumerator(total, n, correlation.penalty), n),
              warning |-> correlation.warning,
              trend_strength |-> Rat(total, n)]

\* analyze_slip_risk without its "if not slip_selections" return
analyze_slip_risk_unguarded(slip_selections) == ScoreSlip(slip_selections)

analyze_slip_risk(slip_selections) ==
    IF slip_selections = <<>>
    THEN [called |-> TRUE, raised |-> NoException, risk_score |-> Rat(0, 1),
          warning |-> None, trend_strength |-> Rat(0, 1)]
    ELSE ScoreSlip(slip_selections)

-----------------------------------------------------------------------------
(* The two pure functions, each applied to an argument drawn in Init *)

Emails == {"ann@example.com", "bob@example.com"}

\* the uid the auth provider gives the account of an e-mail
UidOf(email) == IF email = "ann@example.com" THEN "uid-ann" ELSE "uid-bob"

Uids == { UidOf(e) : e \in Emails }

NoDocument == [exists |-> FALSE, props |-> <<>>]

\* the session and the backend before the script has run anything
SessionIdle ==
    /\ db = TRUE
    /\ accounts = {}
    /\ store = [u \in Uids |-> NoDocument]
    /\ user = NoUser
    /\ slip = <<>>
    /\ watchlist = <<>>
    /\ raised = NoException

session == <<db, accounts, store, user, slip, watchlist, raised>>

\* the selections analyze_slip_risk is given: the feed's props as add_to_slip
\* stores them
FeedItems == { SlipItem(p, "OVER") : p \in Feed(NumProps) }

\* the data model's rule for a slip: 0 to 6 selections, no id twice
ValidSlip(s) ==
    /\ Len(s) <= SlipCap
    /\ \A i, j \in 1..Len(s) : s[i].id = s[j].id => i = j

InitIndicator ==
    /\ score \in (0 - ScoreBound)..ScoreBound
    /\ indicator = NotCalled
    /\ selections = <<>>
    /\ result = NotCalled
    /\ SessionIdle

CallIndicator ==
    /\ indicator = NotCalled
    /\ indicator' = [called |-> TRUE, value |-> get_trend_indicator(score)]
    /\ UNCHANGED <<score, selections, result, session>>

SpecIndicator == InitIndicator /\ [][CallIndicator]_vars

InitAnalyze ==
    /\ score = 0
    /\ indicator = NotCalled
    /\ \E n \in 0..SlipCap :
          /\ selections \in [1..n -> FeedItems]
          /\ ValidSlip(selections)
    /\ result = NotCalled
    /\ SessionIdle

CallAnalyze ==
    /\ result = NotCalled
    /\ result' = analyze_slip_risk(selections)
    /\ UNCHANGED <<score, indicator, selections, session>>

SpecAnalyze == InitAnalyze /\ [][CallAnalyze]_vars

-----------------------------------------------------------------------------
(* streamlit_app.py: the session and its callbacks *)

\* initialize_firebase returns a client, or None when the key file is bad
InitApp ==
    /\ score = 0
    /\ indicator = NotCalled
    /\ selections = <<>>
    /\ result = NotCalled
    /\ db \in BOOLEAN
    /\ accounts = {}
    /\ store = [u \in Uids |-> NoDocument]
    /\ user = NoUser
    /\ slip = <<>>
    /\ watchlist = <<>>
    /\ raised = NoException

\* Streamlit reruns the script after a callback: what the page showed before
\* is gone until the page is drawn again
Rerun ==
    /\ selections' = <<>>
    /\ result' = NotCalled
    /\ UNCHANGED <<score, indicator>>

load_watchlist(user_id) ==
    IF ~db \/ user_id = "" THEN <<>>
    ELSE IF store[user_id].exists THEN store[user_id].props
    ELSE <<>>

\* the store after save_watchlist(user_id, props)
save_watchlist(user_id, props) ==
    IF ~db \/ user_id = "" THEN store
    ELSE [store EXCEPT ![user_id] = [exists |-> TRUE, props |-> props]]

\* [p for p in items if p['id'] != prop_id]
RECURSIVE WithoutId(_, _)
WithoutId(items, prop_id) ==
    IF items = <<>> THEN <<>>
    ELSE IF Head(items).id # prop_id
         THEN <<Head(items)>> \o WithoutId(Tail(items), prop_id)
         ELSE WithoutId(Tail(items), prop_id)

HasId(items, prop_id) == \E i \in 1..Len(items) : items[i].id = prop_id

\* prop_data[key] raises KeyError when the dict has no such key
HasKey(prop_data, key) == key \in DOMAIN prop_data

\* the watchlist once toggle_watchlist has removed or appended the prop
ToggledWatchlist(prop_data) ==
    IF HasId(watchlist, prop_data.id)
    THEN WithoutId(watchlist, prop_data.id)
    ELSE Append(watchlist, [id |-> prop_data.id,
                            playerName |-> prop_data.name,
                            market |-> prop_data.market,
                            line |-> prop_data.line])

toggle_watchlist(prop_data) ==
    /\ IF user = NoUser
       THEN /\ raised' = NoException
            /\ UNCHANGED <<watchlist, store>>
       ELSE /\ watchlist' = ToggledWatchlist(prop_data)
            /\ IF HasKey(prop_data, "playerName")
               THEN /\ store' = save_watchlist(user.uid, watchlist')
                    /\ raised' = NoException
               ELSE /\ raised' = "KeyError"
                    /\ UNCHANGED store
    /\ UNCHANGED <<db, accounts, user, slip>>
    /\ Rerun

\* add_to_slip with len(slip) > 6 for len(slip) >= 6
add_to_slip_cap_off_by_one(prop_data, selection) ==
    /\ IF Len(slip) > SlipCap THEN UNCHANGED slip
       ELSE IF user = NoUser THEN UNCHANGED slip
       ELSE IF HasId(slip, prop_data.id) THEN UNCHANGED slip
       ELSE slip' = Append(slip, SlipItem(prop_data, selection))
    /\ raised' = NoException
    /\ UNCHANGED <<db, accounts, store, user, watchlist>>
    /\ Rerun

\* add_to_slip without the "already in your slip" return
add_to_slip_without_id_check(prop_data, selection) ==
    /\ IF Len(slip) >= SlipCap THEN UNCHANGED slip
       ELSE IF user = NoUser THEN UNCHANGED slip
       ELSE slip' = Append(slip, SlipItem(prop_data, selection))
    /\ raised' = NoException
    /\ UNCHANGED <<db, accounts, store, user, watchlist>>
    /\ Rerun

add_to_slip(prop_data, selection) ==
    /\ IF Len(slip) >= SlipCap THEN UNCHANGED slip
       ELSE IF user = NoUser THEN UNCHANGED slip
       ELSE IF HasId(slip, prop_data.id) THEN UNCHANGED slip
       ELSE slip' = Append(slip, SlipItem(prop_data, selection))
    /\ raised' = NoException
    /\ UNCHANGED <<db, accounts, store, user, watchlist>>
    /\ Rerun

remove_from_slip(prop_id) ==
    /\ slip' = WithoutId(slip, prop_id)
    /\ raised' = NoException
    /\ UNCHANGED <<db, accounts, store, user, watchlist>>
    /\ Rerun

\* auth.get_user_by_email raises a FirebaseError for an unknown e-mail; the
\* password is not verified
handle_login(email, password) ==
    /\ IF ~db THEN UNCHANGED <<user, watchlist>>
       ELSE IF email \notin accounts THEN UNCHANGED <<user, watchlist>>
       ELSE /\ user' = [email |-> email, uid |-> UidOf(email)]
            /\ watchlist' = load_watchlist(UidOf(email))
    /\ raised' = NoException
    /\ UNCHANGED <<db, accounts, store, slip>>
    /\ Rerun

\* auth.create_user raises a FirebaseError for an e-mail already registered;
\* password is the password's length
handle_signup(email, password) ==
    /\ IF ~db THEN UNCHANGED <<accounts, user, watchlist>>
       ELSE IF password < MinPasswordLen THEN UNCHANGED <<accounts, user, watchlist>>
       ELSE IF email \in accounts THEN UNCHANGED <<accounts, user, watchlist>>
       ELSE /\ accounts' = accounts \cup {email}
            /\ user' = [email |-> email, uid |-> UidOf(email)]
            /\ watchlist' = <<>>
    /\ raised' = NoException
    /\ UNCHANGED <<db, store, slip>>
    /\ Rerun

handle_logout ==
    /\ user' = NoUser
    /\ watchlist' = <<>>
    /\ slip' = <<>>
    /\ raised' = NoException
    /\ UNCHANGED <<db, accounts, store>>
    /\ Rerun

\* the Build Slip (Analyzer) page, drawn for a logged-in user with picks
BuildSlipPage ==
    /\ user # NoUser
    /\ slip # <<>>
    /\ selections' = slip
    /\ result' = analyze_slip_risk(slip)
    /\ UNCHANGED <<score, indicator, session>>

Passwords == {MinPasswordLen - 1, MinPasswordLen}

Directions == {"OVER", "UNDER"}

Login == \E e \in Emails, pw \in Passwords : handle_login(e, pw)

Signup == \E e \in Emails, pw \in Passwords : handle_signup(e, pw)

\* the app over the placeholder catalogue: the Players and Build Slip pages
AddFromCatalogue == \E p \in Catalogue, d \in Directions : add_to_slip(p, d)

RemoveFromCatalogue == \E p \in Catalogue : remove_from_slip(p.id)

NextCatalogue ==
    \/ Login
    \/ Signup
    \/ handle_logout
    \/ AddFromCatalogue
    \/ RemoveFromCatalogue
    \/ BuildSlipPage

SpecCatalogue == InitApp /\ [][NextCatalogue]_vars

\* the slip callbacks over a feed longer than the cap
AddFromFeed == \E p \in Feed(NumFeedProps) : add_to_slip(p, "OVER")

RemoveFromFeed == \E p \in Feed(NumFeedProps) : remove_from_slip(p.id)

NextSlip ==
    \/ Login
    \/ Signup
    \/ handle_logout
    \/ AddFromFeed
    \/ RemoveFromFeed

SpecSlip == InitApp /\ [][NextSlip]_vars

\* the watchlist button of the Players page
ToggleFromCatalogue == \E p \in Catalogue : toggle_watchlist(p)

NextWatchlist ==
    \/ Login
    \/ Signup
    \/ handle_logout
    \/ ToggleFromCatalogue

SpecWatchlist == InitApp /\ [][NextWatchlist]_vars

-----------------------------------------------------------------------------
(* The claims' vocabulary, defined from their wording *)

\* the (playerName, propMarket) pairs that occur more than once in the slip
DuplicatedPairs(s) ==
    { <<s[i].playerName, s[i].propMarket>> :
        i \in { k \in 1..Len(s) :
                  \E j \in 1..Len(s) : /\ j # k
                                       /\ s[j].playerName = s[k].playerName
                                       /\ s[j].propMarket = s[k].propMarket } }

PicksInGame(s, g) == Cardinality({ i \in 1..Len(s) : s[i].game_id = g })

\* the positions of the slip whose game carries more than 2 selections
CrowdedPositions(s) == { i \in 1..Len(s) : PicksInGame(s, s[i].game_id) > 2 }

CrowdedGames(s) == { s[i].game_id : i \in CrowdedPositions(s) }

\* the qualifying game that appears first in the slip
FirstCrowdedGame(s) ==
    s[CHOOSE i \in CrowdedPositions(s) : \A j \in CrowdedPositions(s) : i <= j].game_id

\* max(0, 10 - trend_strength - penalty) for a fraction trend_strength
ClaimedRisk(trend_strength, penalty) ==
    Rat(Max(0, 10 * trend_strength.den - trend_strength.num
               - penalty * trend_strength.den),
        trend_strength.den)

Returned == result.called /\ result.raised = NoException

-----------------------------------------------------------------------------
(* Claims about analyze_slip_risk, under SpecAnalyze *)

\* C1: a non-empty slip with a duplicated (playerName, propMarket) pair gets
\* the EXTREME warning, and the self-correlation penalty of 4 is added
\* exactly once, whatever the number of duplicated pairs and of repeats.
C1_SelfCorrelationOnce ==
    (result.called /\ selections # <<>> /\ DuplicatedPairs(selections) # {})
        => /\ Returned
           /\ result.warning = <<"EXTREME">>
           /\ Correlation(selections).penalty = 4
           /\ RatEq(result.risk_score, ClaimedRisk(result.trend_strength, 4))

\* C1 witness: analysed slips with two distinct duplicated pairs, and with a
\* pair that occurs three times
C1_Witness ==
    /\ Returned
    /\ Cardinality(DuplicatedPairs(selections)) >= 2
    /\ \E i, j, k \in 1..Len(selections) :
          /\ i < j /\ j < k
          /\ selections[i].playerName = selections[j].playerName
          /\ selections[j].playerName = selections[k].playerName
          /\ selections[i].propMarket = selections[j].propMarket
          /\ selections[j].propMarket = selections[k].propMarket
    /\ result.warning = <<"EXTREME">>

C3_SelfCorrelationHasPriority ==
    (result.called /\ DuplicatedPairs(selections) # {}
                   /\ CrowdedGames(selections) # {})
        => /\ Returned
           /\ result.warning # None
           /\ result.warning[1] = "EXTREME"
           /\ Correlation(selections).penalty = 4
           /\ Correlation(selections).penalty # 6
           /\ RatEq(result.risk_score, ClaimedRisk(result.trend_strength, 4))

\* C3 witness: an analysed slip with a duplicated pair and a qualifying game
\* that holds none of the duplicates
C3_Witness ==
    /\ Returned
    /\ DuplicatedPairs(selections) # {}
    /\ \E g \in CrowdedGames(selections) :
          \A i \in 1..Len(selections) :
              selections[i].game_id = g =>
                  <<selections[i].playerName, selections[i].propMarket>>
                      \notin DuplicatedPairs(selections)
    /\ result.warning = <<"EXTREME">>

C5_EmptySlip ==
    (result.called /\ selections = <<>>)
        => /\ result.raised = NoException
           /\ result.risk_score = Rat(0, 1)
           /\ result.warning = None
           /\ result.trend_strength = Rat(0, 1)

\* C5 witness: the empty slip, analysed
C5_Witness == result.called /\ selections = <<>>

\* C6: the risk score returned is never negative, for every slip of 0 to 6
\* selections and any combination of collisions (here also for a trend_score
\* above 3, where only the clamp keeps it so).
C6_RiskNeverNegative ==
    result.called => (Returned /\ RatNonNeg(result.risk_score))

\* C6 witness: an analysed slip of 6 selections with trend scores in 1..3, a
\* duplicated pair and a game carrying more than 2 selections
C6_Witness ==
    /\ Returned
    /\ Len(selections) = 6
    /\ \A i \in 1..Len(selections) : selections[i].trend_score \in {1, 2, 3}
    /\ DuplicatedPairs(selections) # {}
    /\ CrowdedGames(selections) # {}
    /\ RatNonNeg(result.risk_score)

-----------------------------------------------------------------------------
(* Claim about get_trend_indicator, under SpecIndicator *)

\* C7: get_trend_indicator is total over the integers: score >= 3 gives
\* (LOCK, green), score = 2 gives (NEUTRAL, orange) and every other integer
\* (1, 0, the negatives) gives (FADE, red).
C7_TrendIndicator ==
    indicator.called =>
        /\ score >= 3 => indicator.value = <<"LOCK", "green">>
        /\ score = 2 => indicator.value = <<"NEUTRAL", "orange">>
        /\ score <= 1 => indicator.value = <<"FADE", "red">>

\* C7 witness: the indicator of a score above 3
C7_Witness == indicator.called /\ score > 3 /\ indicator.value[1] = "LOCK"

-----------------------------------------------------------------------------
(* Claims about the session callbacks *)

\* no more than 6 selections in the session slip, and no id twice
SlipWithinRules ==
    /\ Len(slip) <= 6
    /\ \A i, j \in 1..Len(slip) : slip[i].id = slip[j].id => i = j

\* an add_to_slip call made with the slip full, or with a prop whose id is in
\* the slip, leaves the slip as it was
RejectedAddKeepsSlip ==
    \A p \in Feed(NumFeedProps) :
        (add_to_slip(p, "OVER") /\ (Len(slip) >= 6 \/ HasId(slip, p.id)))
            => slip' = slip

\* C8: after any sequence of add_to_slip, remove_from_slip, handle_login,
\* handle_signup and handle_logout from the empty session the slip has at
\* most 6 selections and no two of them share an id, and an add_to_slip that
\* would break either rule leaves the slip unchanged.  Under SpecSlip.
C8_SlipRulesEnforced == []SlipWithinRules /\ [][RejectedAddKeepsSlip]_vars

\* C8 witness: a logged-in session whose slip is full while a prop on offer
\* is not in it, so that the cap alone turns the next add_to_slip away
C8_Witness ==
    /\ user # NoUser
    /\ Len(slip) = 6
    /\ \E p \in Feed(NumFeedProps) : ~HasId(slip, p.id)

\* C9: whenever a logged-in user toggles a prop of the catalogue,
\* toggle_watchlist completes and the list saved under the user's uid equals
\* the session watchlist after the toggle.  Under SpecWatchlist.
C9_ToggleSavesWatchlist ==
    [][\A p \in Catalogue :
          (user # NoUser /\ toggle_watchlist(p))
              => /\ raised' = NoException
                 /\ store'[user.uid] = [exists |-> TRUE, props |-> watchlist']]_vars

====
